---- MODULE Spec2Model ----
(***************************************************************************)
(* A model of the blog backend: the production server (index.js), the     *)
(* server the test suite drives (test-server.js) and the Google OAuth      *)
(* strategy (passport-config.js), over one shared data store.              *)
(*                                                                         *)
(* Conventions                                                             *)
(*  - JavaScript null/undefined is the record NULL; every field that may   *)
(*    be null holds a record.                                              *)
(*  - A string field of a request body that is missing or empty is "":     *)
(*    the handlers test such fields only with `!field`, which is true of   *)
(*    undefined and of "".                                                 *)
(*  - Time is counted in hours.  created_at is the store's own stamp of    *)
(*    an insert; it orders rows as their serial id does and is modelled    *)
(*    by it.                                                               *)
(*  - Requests are served one after the other.  pc is the position of the  *)
(*    request being served:                                                *)
(*      "idle"    no request; the next one may arrive                      *)
(*      "next"    authenticateToken verified the token and called next()   *)
(*      "authed"  the route handler is entered with req.user = ctx.user    *)
(*      "sent"    the response resp is on its way to the client            *)
(*    req is what the last step read of the request, resp the response it  *)
(*    sent; both are forgotten when the response is delivered.             *)
(***************************************************************************)
EXTENDS Integers, Sequences, FiniteSets, TLC

VARIABLES
    server,      \* which server answers: "prod" (index.js) or "test" (test-server.js)
    users,       \* rows of table Users
    posts,       \* rows of table Posts
    nextUserId,  \* the serial of Users.id
    nextPostId,  \* the serial of Posts.id
    now,         \* the clock, in hours
    issued,      \* the session tokens handed out, each with the user it was made for
    pc,          \* where the request being served is: see below
    ctx,         \* the request object the middleware hands to the route handler
    req,         \* the request (or the part of it) the last step read
    resp,        \* the response the last step sent
    running      \* the handlers that run side by side, each with its position

vars == <<server, users, posts, nextUserId, nextPostId, now, issued, pc, ctx, req,
          resp, running>>

store == <<users, posts, nextUserId, nextPostId>>

(***************************************************************************)
(* Bounds of the model.                                                    *)
(***************************************************************************)
MaxUsers == 2
MaxPosts == 1
MaxTokens == 2
MaxTime == 24

(***************************************************************************)
(* Program constants.                                                      *)
(***************************************************************************)
TokenTTL == 24
BcryptCost == 10
MaxLimit == 100
DefaultLimit == 10

\* The clock moves in steps of a token lifetime.
Tick == TokenTTL

NULL == [null |-> TRUE]

Servers == {"prod", "test"}

JWT_SECRET == "JWT_SECRET"

(***************************************************************************)
(* Input values.                                                           *)
(***************************************************************************)
Emails == {"a@x", "b@x"}

\* A string that is no email address.
InvalidEmail == "invalid-email"
Passwords == {"pw1", "pw2"}

\* A validation that lets every field through.
TruthyAlways(s) == TRUE

Truthy(s) == s # ""

(***************************************************************************)
(* bcrypt.  The salt is fixed: a hash is decided by cost and password.     *)
(***************************************************************************)
\* A request body is JSON: a password can arrive as a number.  The number 123
\* is written as the string below, which no string password equals.
NumberPassword == "<number 123>"

\* bcrypt.hash and bcrypt.compare reject data that is neither a string nor a
\* Buffer.
BcryptRejects(data) == data = NumberPassword

BcryptHash(password, cost) ==
    [alg |-> "bcrypt", cost |-> cost, digest |-> password]

\* A comparison that accepts any password for an account that has a hash.
BcryptCompareAny(password, hash) == hash # NULL

BcryptCompare(password, hash) ==
    /\ hash # NULL
    /\ hash.alg = "bcrypt"
    /\ hash.digest = password

(***************************************************************************)
(* jsonwebtoken.  A token is its payload and a MAC of the payload under    *)
(* the signing key; a string that is no JWT is [raw |-> ...].              *)
(***************************************************************************)
Mac(key, payload) == [key |-> key, over |-> payload]

JwtSign(payload, key, ttl, t) ==
    LET full == [id |-> payload.id, email |-> payload.email,
                 iat |-> t, exp |-> t + ttl]
    IN  [payload |-> full, sig |-> Mac(key, full)]

IsJwt(token) == DOMAIN token = {"payload", "sig"}

\* jwt.decode: the payload of a well-formed token, its signature not checked.
JwtVerifyUnsigned(token, key, t) ==
    IF IsJwt(token) /\ t < token.payload.exp THEN token.payload ELSE NULL

\* A verification that ignores the expiry.
JwtVerifyForever(token, key, t) ==
    IF IsJwt(token) /\ token.sig = Mac(key, token.payload)
    THEN token.payload
    ELSE NULL

\* jwt.verify: the decoded payload, or NULL where verify throws.
JwtVerify(token, key, t) ==
    IF /\ IsJwt(token)
       /\ token.sig = Mac(key, token.payload)
       /\ t < token.payload.exp
    THEN token.payload
    ELSE NULL

Garbage == [raw |-> "invalid_token"]

\* A server token whose payload was rewritten to another id, signature kept.
Tampered(token, id) ==
    [payload |-> [token.payload EXCEPT !.id = id], sig |-> token.sig]

(***************************************************************************)
(* The data store (supabase-js over PostgREST).  A call answers            *)
(* [data, error]; error "" is no error.  `up` is whether the store         *)
(* answered the call at all; a call that is not answered changes nothing.  *)
(* .single() answers error PGRST116 unless exactly one row is selected.    *)
(***************************************************************************)
NoError == ""

Answer(data, error) == [data |-> data, error |-> error]

Single(rows) ==
    IF Cardinality(rows) = 1
    THEN Answer(CHOOSE r \in rows : TRUE, NoError)
    ELSE Answer(NULL, "PGRST116")

\* A lookup that finds no one.
SelectUserByEmailBlind(us, email, up) ==
    IF ~up THEN Answer(NULL, "unavailable") ELSE Single({})

\* from("Users").select("*").eq("email", email).single()
SelectUserByEmail(us, email, up) ==
    IF ~up THEN Answer(NULL, "unavailable")
    ELSE Single({u \in us : u.email = email})

\* A lookup by id that leaves the id out of the query.
SelectUserByIdLoose(us, id, up) ==
    IF ~up THEN Answer(NULL, "unavailable") ELSE Single(us)

\* from("Users").select(...).eq("id", id).single()
SelectUserById(us, id, up) ==
    IF ~up THEN Answer(NULL, "unavailable")
    ELSE Single({u \in us : u.id = id})

\* A table Users without the unique constraint on email.
InsertUserUnchecked(us, id, fields, up) ==
    IF ~up THEN Answer(NULL, "unavailable")
    ELSE Answer([id |-> id, name |-> fields.name, email |-> fields.email,
                 password |-> fields.password, profile_picture |-> NULL,
                 created_at |-> id], NoError)

\* from("Users").insert([fields]).select().single(); Users.email is unique.
InsertUser(us, id, fields, up) ==
    IF ~up THEN Answer(NULL, "unavailable")
    ELSE IF \E u \in us : u.email = fields.email THEN Answer(NULL, "23505")
    ELSE Answer([id |-> id, name |-> fields.name, email |-> fields.email,
                 password |-> fields.password, profile_picture |-> NULL,
                 created_at |-> id], NoError)

\* from("Posts").insert([fields]).select().single()
\* An insert that gives every post the same id.
InsertPostNoSerial(id, fields, up) ==
    IF ~up THEN Answer(NULL, "unavailable")
    ELSE Answer([id |-> 1, title |-> fields.title, body |-> fields.body,
                 user_id |-> fields.user_id, created_at |-> 1], NoError)

InsertPost(id, fields, up) ==
    IF ~up THEN Answer(NULL, "unavailable")
    ELSE Answer([id |-> id, title |-> fields.title, body |-> fields.body,
                 user_id |-> fields.user_id, created_at |-> id], NoError)

\* A filter on the post id alone, as the handlers would be without
\* .eq("user_id", req.user.id).
MatchPostOfAnyone(ps, postId, userId) ==
    {p \in ps : p.id = postId}

\* The rows .eq("id", postId).eq("user_id", userId) selects.
MatchPost(ps, postId, userId) ==
    {p \in ps : p.id = postId /\ p.user_id = userId}

(***************************************************************************)
(* An Express response: the first res.json() of the handler is what the    *)
(* client gets.  `calls` counts the store calls the handler made, `escaped`*)
(* is whether an exception left the handler (a second res.json() throws    *)
(* ERR_HTTP_HEADERS_SENT; thrown inside the catch block it is not caught). *)
(***************************************************************************)
NoCookie == [op |-> "none"]
SetCookie(token) == [op |-> "set", value |-> token]
ClearCookie == [op |-> "clear"]

Reply(status, body, calls) ==
    [status |-> status, body |-> body, cookie |-> NoCookie,
     calls |-> calls, escaped |-> FALSE]

Msg(text) == [message |-> text]

\* The whole row.
PublicUserWhole(u) == u

PublicUser(u) == [id |-> u.id, name |-> u.name, email |-> u.email]

(***************************************************************************)
(* POST /auth/register                                                     *)
(***************************************************************************)
RegisterOutcome(srv, name, email, password, up1, up2) ==
    LET same == [users |-> users, nextUserId |-> nextUserId] IN
    IF ~Truthy(name) \/ ~Truthy(email) \/ ~Truthy(password)
    THEN same @@ [resp |-> Reply(400, Msg("all fields are required"), 0)]
    ELSE
    LET found == SelectUserByEmail(users, email, up1) IN
    IF found.data # NULL
    THEN same @@ [resp |-> Reply(400, Msg("user already exists"), 1)]
    ELSE IF BcryptRejects(password)
    THEN \* the catch block of index.js 191-194, jest.setup.js 244-247
         same @@ [resp |-> Reply(500, [error |-> "internal server error"], 1)]
    ELSE
    LET hashedPassword == BcryptHash(password, BcryptCost)
        made == InsertUser(users, nextUserId,
                           [name |-> name, email |-> email,
                            password |-> hashedPassword], up2)
    IN
    IF made.error # NoError
    THEN \* index.js 182-184 does not return: the 201 that follows reads
         \* newUser.id of null, and the catch block's res.json() throws.
         same @@ [resp |-> [Reply(500, Msg("error creating user"), 2)
                            EXCEPT !.escaped = (srv = "prod")]]
    ELSE [users |-> users \cup {made.data},
          nextUserId |-> nextUserId + 1,
          resp |-> Reply(201, [message |-> "User created successfully",
                               user |-> PublicUser(made.data)], 2)]

(***************************************************************************)
(* generateTokenAndSetCookie: the token, which is also put in the session  *)
(* cookie of the response.                                                 *)
(***************************************************************************)
generateToken(user, t) ==
    JwtSign([id |-> user.id, email |-> user.email], JWT_SECRET, TokenTTL, t)

(***************************************************************************)
(* POST /auth/login.  The outcome: the response, and the token issued      *)
(* (NULL when none is).                                                    *)
(***************************************************************************)
LoginUser(srv, u) ==
    IF srv = "prod"
    THEN PublicUser(u) @@ [profile_picture |-> u.profile_picture]
    ELSE PublicUser(u)

LoginOutcome(srv, email, password, up) ==
    IF ~Truthy(email) \/ ~Truthy(password)
    THEN [token |-> NULL,
          resp |-> Reply(400, Msg("Both email and password are required"), 0)]
    ELSE
    LET found == SelectUserByEmail(users, email, up)
        user == found.data
    IN
    IF user = NULL \/ found.error # NoError
    THEN [token |-> NULL, resp |-> Reply(400, Msg("User not found"), 1)]
    ELSE IF user.password = NULL
    THEN [token |-> NULL,
          resp |-> Reply(400, Msg("This account uses Google login. Please sign in with Google."), 1)]
    ELSE IF BcryptRejects(password)
    THEN [token |-> NULL, resp |-> Reply(500, Msg("Internal server error"), 1)]
    ELSE IF ~BcryptCompare(password, user.password)
    THEN [token |-> NULL, resp |-> Reply(400, Msg("Invalid credentials"), 1)]
    ELSE
    LET token == generateToken(user, now) IN
    [token |-> token,
     resp |-> [Reply(200, [message |-> "Login successful",
                           user |-> LoginUser(srv, user)], 1)
               EXCEPT !.cookie = SetCookie(token)]]

\* What the model remembers of a token handed out: the token, whose it is
\* and when it was made.
Grant(token, user, t) ==
    [token |-> token, id |-> user.id, email |-> user.email, at |-> t]

(***************************************************************************)
(* POST /auth/logout                                                       *)
(***************************************************************************)
\* A logout that leaves the cookie in place.
LogoutOutcomeKeeps(srv) == Reply(200, Msg("logout successful"), 0)

LogoutOutcome(srv) ==
    [Reply(200, Msg("logout successful"), 0) EXCEPT !.cookie = ClearCookie]

(***************************************************************************)
(* GET /auth/me reads the session cookie only.                             *)
(***************************************************************************)
TokenTruthy(token) == token # NULL /\ token # [raw |-> ""]

MeOutcome(srv, cookieToken, up) ==
    IF ~TokenTruthy(cookieToken)
    THEN Reply(401, IF srv = "prod"
                    THEN [user |-> NULL, debug |-> "no_cookie",
                          availableCookies |-> <<>>]
                    ELSE [user |-> NULL], 0)
    ELSE
    LET decoded == JwtVerify(cookieToken, JWT_SECRET, now) IN
    IF decoded = NULL
    THEN Reply(401, IF srv = "prod"
                    THEN [user |-> NULL, debug |-> "token_invalid",
                          error |-> "jwt error"]
                    ELSE [user |-> NULL], 0)
    ELSE
    LET found == SelectUserById(users, decoded.id, up)
        user == found.data
    IN
    IF found.error # NoError \/ user = NULL
    THEN Reply(401, IF srv = "prod"
                    THEN [user |-> NULL, debug |-> "user_not_found",
                          error |-> found.error]
                    ELSE [user |-> NULL], 1)
    ELSE Reply(200, [user |-> IF srv = "prod"
                              THEN PublicUser(user) @@
                                   [created_at |-> user.created_at,
                                    profile_picture |-> user.profile_picture]
                              ELSE PublicUser(user) @@
                                   [created_at |-> user.created_at]], 1)

(***************************************************************************)
(* authenticateToken.  The Authorization header is the list of the parts   *)
(* that split(" ") gives (<<>> for no header); part [1] of JavaScript is   *)
(* part 2 here.  The outcome is the 401 response, or the decoded claims    *)
(* that become req.user.                                                   *)
(***************************************************************************)
Bearer == [raw |-> "Bearer"]

HeaderToken(header) == IF Len(header) >= 2 THEN header[2] ELSE NULL

\* The cookie first: cookieToken || headerToken.
PickTokenCookieFirst(header, cookieToken) ==
    IF TokenTruthy(cookieToken) THEN cookieToken ELSE HeaderToken(header)

PickToken(header, cookieToken) ==
    IF TokenTruthy(HeaderToken(header)) THEN HeaderToken(header) ELSE cookieToken

authenticateToken(srv, header, cookieToken) ==
    LET token == PickToken(header, cookieToken) IN
    IF ~TokenTruthy(token)
    THEN [user |-> NULL, resp |-> Reply(401, Msg("Invalid or no token found"), 0)]
    ELSE
    LET decoded == JwtVerify(token, JWT_SECRET, now) IN
    IF decoded = NULL
    THEN [user |-> NULL, resp |-> Reply(401, Msg("Invalid token"), 0)]
    ELSE [user |-> decoded, resp |-> NULL]

(***************************************************************************)
(* POST /posts, after authenticateToken.                                   *)
(***************************************************************************)
\* A handler that inserts whatever title and body it is given.
CreateOutcomeUnchecked(srv, user, title, body, up) ==
    LET made == InsertPost(nextPostId,
                           [title |-> title, body |-> body, user_id |-> user.id],
                           up)
    IN
    IF made.error # NoError
    THEN [posts |-> posts, nextPostId |-> nextPostId,
          resp |-> Reply(500, [message |-> "error creating post",
                               error |-> made.error], 1)]
    ELSE [posts |-> posts \cup {made.data}, nextPostId |-> nextPostId + 1,
          resp |-> Reply(201, [message |-> "post created successfully",
                               post |-> made.data], 1)]

CreateOutcome(srv, user, title, body, up) ==
    IF ~Truthy(title) \/ ~Truthy(body)
    THEN [posts |-> posts, nextPostId |-> nextPostId,
          resp |-> Reply(400, Msg("title and body are required"), 0)]
    ELSE
    LET made == InsertPost(nextPostId,
                           [title |-> title, body |-> body, user_id |-> user.id],
                           up)
    IN
    IF made.error # NoError
    THEN [posts |-> posts, nextPostId |-> nextPostId,
          resp |-> Reply(500, [message |-> "error creating post",
                               error |-> made.error], 1)]
    ELSE [posts |-> posts \cup {made.data}, nextPostId |-> nextPostId + 1,
          resp |-> Reply(201, [message |-> "post created successfully",
                               post |-> made.data], 1)]

(***************************************************************************)
(* PUT /posts/:id, after authenticateToken.                                *)
(* from("Posts").update({title, body}).select().eq("id", postId)           *)
(*   .eq("user_id", req.user.id).single()                                  *)
(***************************************************************************)
\* An update that leaves the post id out of its filter.
UpdatePostsOfUser(ps, postId, userId, title, body, up) ==
    LET rows == {p \in ps : p.user_id = userId}
        new == {[p EXCEPT !.title = title, !.body = body] : p \in rows}
    IN
    IF ~up THEN [posts |-> ps, answer |-> Answer(NULL, "unavailable")]
    ELSE [posts |-> (ps \ rows) \cup new,
          answer |-> Single({p \in new : p.id = postId})]

UpdatePosts(ps, postId, userId, title, body, up) ==
    LET rows == MatchPost(ps, postId, userId)
        new == {[p EXCEPT !.title = title, !.body = body] : p \in rows}
    IN
    IF ~up THEN [posts |-> ps, answer |-> Answer(NULL, "unavailable")]
    ELSE [posts |-> (ps \ rows) \cup new, answer |-> Single(new)]

UpdateOutcome(srv, user, postId, title, body, up) ==
    IF ~Truthy(title) \/ ~Truthy(body)
    THEN [posts |-> posts,
          resp |-> Reply(400, Msg("title and body are required"), 0)]
    ELSE
    LET done == UpdatePosts(posts, postId, user.id, title, body, up)
        updatedPost == done.answer.data
        error == done.answer.error
    IN
    IF srv = "prod"
    THEN IF error # NoError
         THEN \* index.js 388-391 does not return: the res.json() of line 391
              \* throws, and so does the one of the catch block.
              [posts |-> done.posts,
               resp |-> [Reply(400, Msg("Not authorized to update this post "), 1)
                         EXCEPT !.escaped = TRUE]]
         ELSE [posts |-> done.posts,
               resp |-> Reply(200, [updatedPost |-> updatedPost], 1)]
    ELSE IF error # NoError \/ updatedPost = NULL
         THEN [posts |-> done.posts,
               resp |-> Reply(400, Msg("Not authorized to update this post or post not found"), 1)]
         ELSE [posts |-> done.posts,
               resp |-> Reply(200, [updatedPost |-> updatedPost], 1)]

(***************************************************************************)
(* DELETE /posts/:id, after authenticateToken.                             *)
(* index.js:      delete().eq("id", ..).eq("user_id", ..).single()         *)
(* test-server:   delete().eq("id", ..).eq("user_id", ..).select().single()*)
(* Without .select() the deleted row is not returned: data is null.        *)
(***************************************************************************)
\* A delete that answers as the store does and removes nothing.
DeletePostsKeeps(srv, ps, postId, userId, up) ==
    IF ~up THEN [posts |-> ps, answer |-> Answer(NULL, "unavailable")]
    ELSE [posts |-> ps,
          answer |-> IF srv = "prod"
                     THEN Answer(NULL, Single(MatchPost(ps, postId, userId)).error)
                     ELSE Single(MatchPost(ps, postId, userId))]

DeletePosts(srv, ps, postId, userId, up) ==
    LET rows == MatchPost(ps, postId, userId)
        one == Single(rows)
    IN
    IF ~up THEN [posts |-> ps, answer |-> Answer(NULL, "unavailable")]
    ELSE [posts |-> ps \ rows,
          answer |-> IF srv = "prod" THEN Answer(NULL, one.error) ELSE one]

\* A handler that tells a post of someone else (403) from no post (404).
DeleteOutcomeTelling(srv, user, postId, up) ==
    IF ~up
    THEN [posts |-> posts, resp |-> Reply(400, Msg("unavailable"), 1)]
    ELSE IF MatchPost(posts, postId, user.id) # {}
    THEN [posts |-> posts \ MatchPost(posts, postId, user.id),
          resp |-> Reply(200, Msg("post deleted successfully"), 1)]
    ELSE IF \E p \in posts : p.id = postId
    THEN [posts |-> posts, resp |-> Reply(403, Msg("forbidden"), 1)]
    ELSE [posts |-> posts, resp |-> Reply(404, Msg("not found"), 1)]

DeleteOutcome(srv, user, postId, up) ==
    LET done == DeletePosts(srv, posts, postId, user.id, up)
        deleteData == done.answer.data
        error == done.answer.error
    IN
    IF srv = "prod"
    THEN IF error # NoError
         THEN [posts |-> done.posts,
               resp |-> Reply(400, Msg("not authorized to delete this post"), 1)]
         ELSE [posts |-> done.posts,
               resp |-> Reply(200, [message |-> "post deleted successfully",
                                    post |-> deleteData], 1)]
    ELSE IF error # NoError \/ deleteData = NULL
         THEN [posts |-> done.posts,
               resp |-> Reply(400, Msg("not authorized to delete this post or post not found"), 1)]
         ELSE [posts |-> done.posts,
               resp |-> Reply(200, [message |-> "post deleted successfully",
                                    post |-> deleteData], 1)]

(***************************************************************************)
(* GET /posts.  A query parameter is NULL (absent, or not a number) or     *)
(* [n |-> the integer parseInt reads].                                     *)
(***************************************************************************)
\* parseInt(param) || fallback: NaN and 0 are falsy.
ParseIntOr(param, fallback) ==
    IF param = NULL \/ param.n = 0 THEN fallback ELSE param.n

Min(a, b) == IF a <= b THEN a ELSE b

CeilDiv(a, b) == IF a % b = 0 THEN a \div b ELSE (a \div b) + 1

\* No upper limit.
ClampLimitNone(srv, limit) == limit

\* index.js 315 is Math.min((1, limit), 100): the comma expression is limit.
ClampLimit(srv, limit) == Min(limit, MaxLimit)

ClampPage(page) == IF page < 1 THEN 1 ELSE page

\* The characters of the strings the model uses, and toLowerCase on them.
Chars(str) ==
    CASE str = "" -> <<>>
      [] str = "t" -> <<"t">>
      [] str = "T1" -> <<"T", "1">>
      [] str = "t1" -> <<"t", "1">>
      [] str = "t2" -> <<"t", "2">>
      [] str = "zz" -> <<"z", "z">>

LowerChar(c) == IF c = "T" THEN "t" ELSE c

Lower(cs) == [i \in 1..Len(cs) |-> LowerChar(cs[i])]

\* title ILIKE '%search%'
ILike(title, search) ==
    LET t == Lower(Chars(title))
        q == Lower(Chars(search))
    IN  \E k \in 0..(Len(t) - Len(q)) :
           \A i \in 1..Len(q) : t[k + i] = q[i]

\* order("created_at", desc).  Every insert gets its own created_at, so the
\* rows are listed by walking the stamps from the highest to the lowest.
NewestFirst(rows) ==
    IF rows = {} THEN <<>>
    ELSE LET stamps == {p.created_at : p \in rows}
             hi == CHOOSE m \in stamps : \A k \in stamps : k <= m
             lo == CHOOSE m \in stamps : \A k \in stamps : m <= k
             desc == SelectSeq([k \in 1..(hi - lo + 1) |-> hi - k + 1],
                               LAMBDA t : t \in stamps)
         IN  [i \in 1..Len(desc) |->
                CHOOSE p \in rows : p.created_at = desc[i]]

\* The post as GET /posts returns it: index.js embeds Users(id, name, email).
Listed(srv, p) ==
    IF srv = "prod"
    THEN LET owner == {u \in users : u.id = p.user_id} IN
         p @@ [Users |-> IF owner = {} THEN NULL
                         ELSE PublicUser(CHOOSE u \in owner : TRUE)]
    ELSE p

\* select(.., {count: "exact"}).order("created_at", desc)[.ilike].range(start, end)
\* PostgREST answers 416 when the range starts beyond the counted rows, when
\* its offset is negative and when its limit (end - start + 1) is negative.
SelectPosts(srv, search, start, end, up) ==
    LET rows == IF Truthy(search)
                THEN {p \in posts : ILike(p.title, search)}
                ELSE posts
        all == NewestFirst(rows)
        count == Cardinality(rows)
        page == [i \in 1..(IF Min(end + 1, count) > start
                           THEN Min(end + 1, count) - start ELSE 0)
                   |-> Listed(srv, all[start + i])]
    IN
    IF ~up THEN [data |-> <<>>, count |-> 0, error |-> "unavailable"]
    ELSE IF start > count \/ start < 0 \/ end + 1 < start
    THEN [data |-> <<>>, count |-> 0, error |-> "PGRST103"]
    ELSE [data |-> page, count |-> count, error |-> NoError]

GetPostsOutcome(srv, pageParam, limitParam, search, up) ==
    LET page == ClampPage(ParseIntOr(pageParam, 1))
        limit == ClampLimit(srv, ParseIntOr(limitParam, DefaultLimit))
        start == (page - 1) * limit
        end == start + limit - 1
        got == SelectPosts(srv, search, start, end, up)
    IN
    IF got.error # NoError
    THEN Reply(500, [message |-> "error fetching posts", error |-> got.error], 1)
    ELSE Reply(200, [posts |-> got.data,
                     totalPosts |-> got.count,
                     totalPages |-> CeilDiv(got.count, limit),
                     currentPage |-> page], 1)

(***************************************************************************)
(* The Google OAuth strategy's verify callback (passport-config.js) and    *)
(* GET /auth/google/callback (index.js only).                              *)
(* A profile is [emails, displayName, name]: emails the list of its        *)
(* addresses, name NULL or [givenName, familyName].                        *)
(***************************************************************************)
\* String(x) of a name part that may be undefined.
Str(part) == IF part = NULL THEN "undefined" ELSE part.text

Trim(str) ==
    CASE str = "B@x " -> "B@x"
      [] str = "b@x " -> "b@x"
      [] OTHER -> str

ToLowerCase(str) ==
    CASE str = "B@x " -> "b@x "
      [] str = "B@x" -> "b@x"
      [] OTHER -> str

ProfileEmail(profile) ==
    IF Len(profile.emails) = 0 THEN "" ELSE profile.emails[1]

\* profile.displayName || profile.name?.givenName + " " + profile.name?.familyName
ProfileName(profile) ==
    IF Truthy(profile.displayName) THEN profile.displayName
    ELSE Str(IF profile.name = NULL THEN NULL
             ELSE [text |-> profile.name.givenName])
         \o " " \o
         Str(IF profile.name = NULL THEN NULL
             ELSE [text |-> profile.name.familyName])

\* The outcome is done(error, user): error "" and the user, or an error and
\* user NULL.
VerifyOutcome(profile, up1, up2, up3) ==
    LET same == [users |-> users, nextUserId |-> nextUserId]
        email == ProfileEmail(profile)
        name == ProfileName(profile)
    IN
    IF ~Truthy(email)
    THEN same @@ [user |-> NULL, calls |-> 0,
                  error |-> "No email found in Google profile"]
    ELSE IF ~Truthy(name)
    THEN same @@ [user |-> NULL, calls |-> 0,
                  error |-> "No name found in Google profile"]
    ELSE
    LET found == SelectUserByEmail(users, email, up1) IN
    IF found.data # NULL /\ found.error = NoError
    THEN same @@ [user |-> found.data, calls |-> 1, error |-> NoError]
    ELSE
    LET made == InsertUser(users, nextUserId,
                           [name |-> Trim(name),
                            email |-> Trim(ToLowerCase(email)),
                            password |-> NULL], up2)
    IN
    IF made.error # NoError
    THEN IF made.error = "23505"
         THEN LET retry == SelectUserByEmail(users, email, up3) IN
              IF retry.data # NULL /\ retry.error = NoError
              THEN same @@ [user |-> retry.data, calls |-> 3, error |-> NoError]
              ELSE same @@ [user |-> NULL, calls |-> 3, error |-> made.error]
         ELSE same @@ [user |-> NULL, calls |-> 2, error |-> made.error]
    ELSE [users |-> users \cup {made.data}, nextUserId |-> nextUserId + 1,
          user |-> made.data, calls |-> 2, error |-> NoError]

\* passport hands done(error) to Express's error handler (500) and
\* done(null, user) to the route handler, which sets the cookie and redirects.
CallbackOutcome(profile, up1, up2, up3) ==
    LET v == VerifyOutcome(profile, up1, up2, up3) IN
    IF v.error # NoError
    THEN [users |-> v.users, nextUserId |-> v.nextUserId, token |-> NULL,
          user |-> NULL,
          resp |-> Reply(500, [html |-> v.error], v.calls)]
    ELSE
    LET token == generateToken(v.user, now) IN
    [users |-> v.users, nextUserId |-> v.nextUserId, token |-> token,
     user |-> v.user,
     resp |-> [Reply(302, [location |-> "/auth/callback?success=true"], v.calls)
               EXCEPT !.cookie = SetCookie(token)]]

(***************************************************************************)
(* The requests a client may send.                                         *)
(***************************************************************************)
\* Bodies of POST /auth/register: complete, with one field missing, with a
\* password that is a number, with an email that is no address.
RegisterBodies ==
    {[name |-> "ann", email |-> e, password |-> "pw1"] : e \in Emails}
      \cup {[name |-> "", email |-> "a@x", password |-> "pw1"],
            [name |-> "ann", email |-> "", password |-> "pw1"],
            [name |-> "ann", email |-> "a@x", password |-> ""],
            [name |-> "ann", email |-> "a@x", password |-> NumberPassword],
            [name |-> "ann", email |-> InvalidEmail, password |-> "pw1"]}

\* Bodies of POST /auth/login.
LoginBodies ==
    {[email |-> e, password |-> p] : e \in Emails, p \in Passwords}
      \cup {[email |-> "", password |-> "pw1"],
            [email |-> "a@x", password |-> ""]}

\* title and body of a request: both given, or one of them missing.
Contents == {<<"t1", "b1">>, <<"t2", "b2">>, <<"", "b1">>, <<"t1", "">>}

PostIds == 1..(MaxPosts + 1)

\* Queries of GET /posts: page, limit and search.
Queries ==
    {[page |-> NULL, limit |-> NULL, search |-> ""],
     [page |-> [n |-> 0], limit |-> [n |-> 1000], search |-> ""],
     [page |-> [n |-> 2], limit |-> [n |-> 1], search |-> ""],
     [page |-> [n |-> 3], limit |-> [n |-> 1], search |-> "T1"],
     [page |-> NULL, limit |-> NULL, search |-> "T1"],
     [page |-> NULL, limit |-> NULL, search |-> "zz"]}

\* Profiles the identity provider may return.
Profiles ==
    {[emails |-> <<"a@x">>, displayName |-> "ann", name |-> NULL],
     [emails |-> <<"B@x ">>, displayName |-> "ann", name |-> NULL],
     [emails |-> <<>>, displayName |-> "ann", name |-> NULL],
     [emails |-> <<"a@x">>, displayName |-> "", name |-> NULL]}

IssuedTokens == {g.token : g \in issued}

\* The tokens a client can present: the ones handed out, a string that is no
\* JWT, and a handed-out token rewritten to another user id.
TokenPool ==
    IssuedTokens \cup {Garbage}
      \cup {Tampered(t, 2) : t \in {u \in IssuedTokens : u.payload.id = 1}}

Headers ==
    {<<>>, <<Bearer>>} \cup {<<Bearer, t>> : t \in TokenPool}

Cookies == {NULL} \cup TokenPool

\* The Authorization header and session cookie of a request to a protected
\* route: one of the two alone, or both.
Credentials ==
    {[header |-> h, cookie |-> NULL] : h \in Headers}
      \cup {[header |-> <<>>, cookie |-> c] : c \in Cookies}
      \cup {[header |-> h, cookie |-> c] :
               h \in {<<Bearer>>}
                        \cup {<<Bearer, t>> : t \in IssuedTokens \cup {Garbage}},
               c \in IssuedTokens \cup {Garbage}}

Idle == [op |-> "none"]

\* The handlers that can be in flight at once, and none of them running.
Handlers == {"h1", "h2"}

NoneRunning == [h \in Handlers |-> Idle]

\* Whether the store answers is chosen only for the calls the handler makes:
\* ups[k] says whether call k is answered, and is TRUE for a call not made.
Asked(calls, ups) == \A k \in 1..Len(ups) : k > calls => ups[k]

\* The state after construction: an empty store, no request.
Fresh ==
    /\ users = {}
    /\ posts = {}
    /\ nextUserId = 1
    /\ nextPostId = 1
    /\ now = 0
    /\ issued = {}
    /\ pc = "idle"
    /\ ctx = NULL
    /\ req = Idle
    /\ resp = NULL
    /\ running = NoneRunning

\* The production server.
Init == server = "prod" /\ Fresh

\* Either server.
InitEither == server \in Servers /\ Fresh

(***************************************************************************)
(* One action per route.                                                   *)
(***************************************************************************)
Register ==
    /\ pc = "idle"
    /\ \E b \in RegisterBodies, up1 \in BOOLEAN, up2 \in BOOLEAN :
         LET srv == server
             out == RegisterOutcome(srv, b.name, b.email, b.password, up1, up2)
         IN
         /\ Asked(out.resp.calls, <<up1, up2>>)
         /\ out.users # users => Cardinality(users) < MaxUsers
         /\ users' = out.users
         /\ nextUserId' = out.nextUserId
         /\ resp' = out.resp
         /\ req' = [op |-> "register", srv |-> srv, name |-> b.name,
                    email |-> b.email, password |-> b.password,
                    up1 |-> up1, up2 |-> up2]
    /\ pc' = "sent"
    /\ UNCHANGED <<server, running, posts, nextPostId, now, issued, ctx>>

Login ==
    /\ pc = "idle"
    /\ \E b \in LoginBodies, up \in BOOLEAN :
         LET srv == server
             out == LoginOutcome(srv, b.email, b.password, up)
         IN
         /\ Asked(out.resp.calls, <<up>>)
         /\ issued' = IF out.token = NULL THEN issued
                      ELSE issued \cup
                           {Grant(out.token,
                                  CHOOSE u \in users : u.email = b.email,
                                  now)}
         /\ Cardinality(issued') <= MaxTokens
         /\ resp' = out.resp
         /\ req' = [op |-> "login", srv |-> srv, email |-> b.email,
                    password |-> b.password, up |-> up]
    /\ pc' = "sent"
    /\ UNCHANGED <<server, running, store, now, ctx>>

Logout ==
    /\ pc = "idle"
    /\ \E cookie \in {NULL} \cup IssuedTokens :
         /\ resp' = LogoutOutcome(server)
         /\ req' = [op |-> "logout", srv |-> server, cookie |-> cookie]
    /\ pc' = "sent"
    /\ UNCHANGED <<server, running, store, now, issued, ctx>>

\* The Authorization header and session cookie of a GET /auth/me.
MeCredentials ==
    {[header |-> <<>>, cookie |-> c] : c \in Cookies}
      \cup {[header |-> <<Bearer, t>>, cookie |-> NULL] : t \in IssuedTokens}

Me ==
    /\ pc = "idle"
    /\ \E c \in MeCredentials, up \in BOOLEAN :
         /\ Asked(MeOutcome(server, c.cookie, up).calls, <<up>>)
         /\ resp' = MeOutcome(server, c.cookie, up)
         /\ req' = [op |-> "me", srv |-> server, header |-> c.header,
                    cookie |-> c.cookie, up |-> up]
    /\ pc' = "sent"
    /\ UNCHANGED <<server, running, store, now, issued, ctx>>

GetPostsOf(queries) ==
    /\ pc = "idle"
    /\ \E q \in queries, up \in BOOLEAN :
         /\ resp' = GetPostsOutcome(server, q.page, q.limit, q.search, up)
         /\ req' = [op |-> "list", srv |-> server, page |-> q.page,
                    limit |-> q.limit, search |-> q.search, up |-> up]
    /\ pc' = "sent"
    /\ UNCHANGED <<server, running, store, now, issued, ctx>>

GetPosts == GetPostsOf(Queries)

\* GET /auth/google/callback, reached with the provider's profile.  Only
\* index.js has the route.
OAuthCallback ==
    /\ pc = "idle"
    /\ server = "prod"
    /\ \E profile \in Profiles, up1 \in BOOLEAN, up2 \in BOOLEAN,
          up3 \in BOOLEAN :
         LET out == CallbackOutcome(profile, up1, up2, up3) IN
         /\ Asked(out.resp.calls, <<up1, up2, up3>>)
         /\ out.users # users => Cardinality(users) < MaxUsers
         /\ users' = out.users
         /\ nextUserId' = out.nextUserId
         /\ issued' = IF out.token = NULL THEN issued
                      ELSE issued \cup {Grant(out.token, out.user, now)}
         /\ Cardinality(issued') <= MaxTokens
         /\ resp' = out.resp
         /\ req' = [op |-> "oauth", srv |-> "prod", profile |-> profile,
                    up1 |-> up1, up2 |-> up2, up3 |-> up3]
    /\ pc' = "sent"
    /\ UNCHANGED <<server, running, posts, nextPostId, now, ctx>>

\* authenticateToken, the middleware of POST /posts, PUT /posts/:id and
\* DELETE /posts/:id.  It does not read the route: the model picks the route
\* when the handler is entered.
Authenticate ==
    /\ pc = "idle"
    /\ \E c \in Credentials :
         LET srv == server
             header == c.header
             cookie == c.cookie
             out == authenticateToken(srv, header, cookie)
         IN
         /\ req' = [op |-> "protected", srv |-> srv,
                    header |-> header, cookie |-> cookie]
         /\ IF out.user = NULL
            THEN /\ resp' = out.resp
                 /\ pc' = "sent"
                 /\ ctx' = NULL
            ELSE /\ resp' = NULL
                 /\ pc' = "next"
                 /\ ctx' = [srv |-> srv, user |-> out.user]
    /\ UNCHANGED <<server, running, store, now, issued>>

\* next(): Express enters the route handler.
Proceed ==
    /\ pc = "next"
    /\ pc' = "authed"
    /\ req' = Idle
    /\ UNCHANGED <<server, running, store, now, issued, ctx, resp>>

CreatePost ==
    /\ pc = "authed"
    /\ \E c \in Contents, up \in BOOLEAN :
         LET out == CreateOutcome(ctx.srv, ctx.user, c[1], c[2], up) IN
         /\ Asked(out.resp.calls, <<up>>)
         /\ out.posts # posts => nextPostId <= MaxPosts
         /\ posts' = out.posts
         /\ nextPostId' = out.nextPostId
         /\ resp' = out.resp
         /\ req' = [op |-> "create", srv |-> ctx.srv, user |-> ctx.user,
                    title |-> c[1], body |-> c[2], up |-> up]
    /\ pc' = "sent"
    /\ ctx' = NULL
    /\ UNCHANGED <<server, running, users, nextUserId, now, issued>>

UpdatePost ==
    /\ pc = "authed"
    /\ \E id \in PostIds, c \in Contents, up \in BOOLEAN :
         LET out == UpdateOutcome(ctx.srv, ctx.user, id, c[1], c[2], up) IN
         /\ Asked(out.resp.calls, <<up>>)
         /\ posts' = out.posts
         /\ resp' = out.resp
         /\ req' = [op |-> "update", srv |-> ctx.srv, user |-> ctx.user,
                    id |-> id, title |-> c[1], body |-> c[2], up |-> up]
    /\ pc' = "sent"
    /\ ctx' = NULL
    /\ UNCHANGED <<server, running, users, nextUserId, nextPostId, now, issued>>

DeletePost ==
    /\ pc = "authed"
    /\ \E id \in PostIds, up \in BOOLEAN :
         LET out == DeleteOutcome(ctx.srv, ctx.user, id, up) IN
         /\ posts' = out.posts
         /\ resp' = out.resp
         /\ req' = [op |-> "delete", srv |-> ctx.srv, user |-> ctx.user,
                    id |-> id, up |-> up]
    /\ pc' = "sent"
    /\ ctx' = NULL
    /\ UNCHANGED <<server, running, users, nextUserId, nextPostId, now, issued>>

\* The response reaches the client and the request is over.
Deliver ==
    /\ pc = "sent"
    /\ pc' = "idle"
    /\ req' = Idle
    /\ resp' = NULL
    /\ UNCHANGED <<server, running, store, now, issued, ctx>>

\* Time passes.
Advance ==
    /\ pc = "idle"
    /\ now + Tick <= MaxTime
    /\ now' = now + Tick
    /\ UNCHANGED <<server, running, store, issued, pc, ctx, req, resp>>

Next ==
    \/ Register
    \/ Login
    \/ Logout
    \/ Me
    \/ GetPosts
    \/ OAuthCallback
    \/ Authenticate
    \/ Proceed
    \/ CreatePost
    \/ UpdatePost
    \/ DeletePost
    \/ Deliver
    \/ Advance

Spec == Init /\ [][Next]_vars

SpecEither == InitEither /\ [][Next]_vars

(***************************************************************************)
(* GET /posts on a store that holds many posts.  The store starts with one *)
(* registered user and that user's posts, created one after the other      *)
(* with alternating titles; the requests are GET /posts only.              *)
(***************************************************************************)
ManyPosts == 101

Author ==
    [id |-> 1, name |-> "ann", email |-> "a@x",
     password |-> BcryptHash("pw1", BcryptCost), profile_picture |-> NULL,
     created_at |-> 1]

Seeded(n) ==
    {[id |-> i, title |-> IF i % 2 = 1 THEN "t1" ELSE "t2", body |-> "b1",
      user_id |-> 1, created_at |-> i] : i \in 1..n}

ListQueries ==
    {[page |-> pg, limit |-> lm, search |-> sr] :
        pg \in {NULL, [n |-> 0], [n |-> 0 - 1], [n |-> 1], [n |-> 2], [n |-> 3]},
        lm \in {NULL, [n |-> 0 - 1], [n |-> 0], [n |-> 1], [n |-> 2],
                [n |-> MaxLimit],
                [n |-> MaxLimit + 1], [n |-> 1000]},
        sr \in {"", "T1", "t", "zz"}}

InitList ==
    /\ server \in Servers
    /\ users = {Author}
    /\ nextUserId = 2
    /\ \E n \in {0, 1, 2, 3, ManyPosts} :
         /\ posts = Seeded(n)
         /\ nextPostId = n + 1
    /\ now = 0
    /\ issued = {}
    /\ pc = "idle"
    /\ ctx = NULL
    /\ req = Idle
    /\ resp = NULL
    /\ running = NoneRunning

ListPosts == GetPostsOf(ListQueries)

NextList ==
    \/ ListPosts
    \/ Deliver

SpecList == InitList /\ [][NextList]_vars

(***************************************************************************)
(* Two handlers side by side.  Node runs a handler without interruption    *)
(* from one await to the next, and the store performs one call at a time:  *)
(* a step is the arrival of a request (the handler up to its first await)  *)
(* or one store call with the code that follows it up to the next await.   *)
(* running[h] is Idle, or the request of handler h (op, arg), the call it  *)
(* waits for (at), its response once sent (resp), whether every call so    *)
(* far was answered (ok), the OAuth resolver's createError (err), and       *)
(* whether the other handler was at work when the request arrived (beside).*)
(***************************************************************************)
MaxRacePosts == 4

\* A second stored user, and a post of each.
Other ==
    [id |-> 2, name |-> "bob", email |-> "b@x",
     password |-> BcryptHash("pw2", BcryptCost), profile_picture |-> NULL,
     created_at |-> 2]

TwoPosts ==
    {[id |-> 1, title |-> "t1", body |-> "b1", user_id |-> 1, created_at |-> 1],
     [id |-> 2, title |-> "t2", body |-> "b2", user_id |-> 2, created_at |-> 2]}

\* req.user, as authenticateToken sets it from a verified token of user u.
Claims(u) == [id |-> u.id, email |-> u.email]

RacePostIds == 1..(MaxRacePosts - 1)

\* Another handler than h is between its arrival and its response.
Beside(h) ==
    \E k \in Handlers \ {h} : running[k] # Idle /\ running[k].at # "done"

Flight(h, op, at, arg) ==
    [op |-> op, at |-> at, arg |-> arg, resp |-> NULL, ok |-> TRUE,
     err |-> NoError, beside |-> Beside(h)]

Moved(f, at, up) == [f EXCEPT !.at = at, !.ok = f.ok /\ up]

Done(f, response, up) ==
    [f EXCEPT !.at = "done", !.resp = response, !.ok = f.ok /\ up]

Creating(ops) == Cardinality({h \in Handlers : running[h].op \in ops})

InitRace ==
    /\ server \in Servers
    /\ \/ users = {} /\ nextUserId = 1 /\ posts = {} /\ nextPostId = 1
       \/ /\ users = {Author, Other} /\ nextUserId = 3
          /\ \/ posts = {} /\ nextPostId = 1
             \/ posts = TwoPosts /\ nextPostId = 3
    /\ now = 0
    /\ issued = {}
    /\ pc = "idle"
    /\ ctx = NULL
    /\ req = Idle
    /\ resp = NULL
    /\ running = NoneRunning

\* POST /auth/register up to the lookup.
ArriveRegister ==
    /\ Cardinality(users) + Creating({"register", "oauth"}) < MaxUsers
    /\ \E h \in Handlers, b \in RegisterBodies :
         /\ running[h] = Idle
         /\ running' = [running EXCEPT ![h] =
              IF ~Truthy(b.name) \/ ~Truthy(b.email) \/ ~Truthy(b.password)
              THEN Done(Flight(h, "register", "select", b),
                        Reply(400, Msg("all fields are required"), 0), TRUE)
              ELSE Flight(h, "register", "select", b)]
    /\ UNCHANGED <<server, store, now, issued, pc, ctx, req, resp>>

\* The lookup by email, and bcrypt.hash.
RegisterSelect ==
    /\ \E h \in Handlers, up \in BOOLEAN :
         LET f == running[h]
             found == SelectUserByEmail(users, f.arg.email, up)
         IN
         /\ f.op = "register" /\ f.at = "select"
         /\ running' = [running EXCEPT ![h] =
              IF found.data # NULL
              THEN Done(f, Reply(400, Msg("user already exists"), 1), up)
              ELSE IF BcryptRejects(f.arg.password)
              THEN Done(f, Reply(500, [error |-> "internal server error"], 1),
                        up)
              ELSE Moved(f, "insert", up)]
    /\ UNCHANGED <<server, store, now, issued, pc, ctx, req, resp>>

\* A handler that answers 201 whatever the insert returned.
RegisterAnswerCreated(srv, made) ==
    Reply(201, [message |-> "User created successfully",
                user |-> IF made.data = NULL
                         THEN [id |-> 0, name |-> "", email |-> ""]
                         ELSE PublicUser(made.data)], 2)

\* The response after the insert.  index.js 182-184 does not return after its
\* 500: what follows throws, and so does the catch block.
RegisterAnswer(srv, made) ==
    IF made.error # NoError
    THEN [Reply(500, Msg("error creating user"), 2)
          EXCEPT !.escaped = (srv = "prod")]
    ELSE Reply(201, [message |-> "User created successfully",
                     user |-> PublicUser(made.data)], 2)

\* The insert, and the response.
RegisterInsert ==
    /\ \E h \in Handlers, up \in BOOLEAN :
         LET f == running[h]
             made == InsertUser(users, nextUserId,
                                [name |-> f.arg.name, email |-> f.arg.email,
                                 password |-> BcryptHash(f.arg.password,
                                                         BcryptCost)], up)
         IN
         /\ f.op = "register" /\ f.at = "insert"
         /\ IF made.error # NoError
            THEN UNCHANGED <<users, nextUserId>>
            ELSE /\ users' = users \cup {made.data}
                 /\ nextUserId' = nextUserId + 1
         /\ running' = [running EXCEPT ![h] =
              Done(f, RegisterAnswer(server, made), up)]
    /\ UNCHANGED <<server, posts, nextPostId, now, issued, pc, ctx, req, resp>>

\* GET /auth/google/callback: done(null, user) is answered with the session
\* cookie and the redirect, done(error) with Express's 500.
LoggedIn(user, calls) ==
    [Reply(302, [location |-> "/auth/callback?success=true"], calls)
     EXCEPT !.cookie = SetCookie(generateToken(user, now))]

Failed(error, calls) == Reply(500, [html |-> error], calls)

\* The verify callback up to its lookup.
ArriveOAuth ==
    /\ server = "prod"
    /\ Cardinality(users) + Creating({"register", "oauth"}) < MaxUsers
    /\ \E h \in Handlers, profile \in Profiles :
         /\ running[h] = Idle
         /\ running' = [running EXCEPT ![h] =
              IF ~Truthy(ProfileEmail(profile))
              THEN Done(Flight(h, "oauth", "select", profile),
                        Failed("No email found in Google profile", 0), TRUE)
              ELSE IF ~Truthy(ProfileName(profile))
              THEN Done(Flight(h, "oauth", "select", profile),
                        Failed("No name found in Google profile", 0), TRUE)
              ELSE Flight(h, "oauth", "select", profile)]
    /\ UNCHANGED <<server, store, now, issued, pc, ctx, req, resp>>

\* The lookup by the profile's email.
VerifySelect ==
    /\ \E h \in Handlers, up \in BOOLEAN :
         LET f == running[h]
             found == SelectUserByEmail(users, ProfileEmail(f.arg), up)
         IN
         /\ f.op = "oauth" /\ f.at = "select"
         /\ IF found.data # NULL /\ found.error = NoError
            THEN /\ running' = [running EXCEPT ![h] =
                      Done(f, LoggedIn(found.data, 1), up)]
                 /\ issued' = issued \cup
                      {Grant(generateToken(found.data, now), found.data, now)}
            ELSE /\ running' = [running EXCEPT ![h] = Moved(f, "insert", up)]
                 /\ issued' = issued
    /\ UNCHANGED <<server, store, now, pc, ctx, req, resp>>

\* The insert of the new user.
VerifyInsert ==
    /\ \E h \in Handlers, up \in BOOLEAN :
         LET f == running[h]
             made == InsertUser(users, nextUserId,
                                [name |-> Trim(ProfileName(f.arg)),
                                 email |-> Trim(ToLowerCase(ProfileEmail(f.arg))),
                                 password |-> NULL], up)
         IN
         /\ f.op = "oauth" /\ f.at = "insert"
         /\ IF made.error = "23505"
            THEN /\ running' = [running EXCEPT ![h] =
                      [Moved(f, "retry", up) EXCEPT !.err = made.error]]
                 /\ UNCHANGED <<users, nextUserId, issued>>
            ELSE IF made.error # NoError
            THEN /\ running' = [running EXCEPT ![h] =
                      Done(f, Failed(made.error, 2), up)]
                 /\ UNCHANGED <<users, nextUserId, issued>>
            ELSE /\ users' = users \cup {made.data}
                 /\ nextUserId' = nextUserId + 1
                 /\ running' = [running EXCEPT ![h] =
                      Done(f, LoggedIn(made.data, 2), up)]
                 /\ issued' = issued \cup
                      {Grant(generateToken(made.data, now), made.data, now)}
    /\ UNCHANGED <<server, posts, nextPostId, now, pc, ctx, req, resp>>

\* The second lookup, after a unique violation.
VerifyRetry ==
    /\ \E h \in Handlers, up \in BOOLEAN :
         LET f == running[h]
             retry == SelectUserByEmail(users, ProfileEmail(f.arg), up)
         IN
         /\ f.op = "oauth" /\ f.at = "retry"
         /\ IF retry.data # NULL /\ retry.error = NoError
            THEN /\ running' = [running EXCEPT ![h] =
                      Done(f, LoggedIn(retry.data, 3), up)]
                 /\ issued' = issued \cup
                      {Grant(generateToken(retry.data, now), retry.data, now)}
            ELSE /\ running' = [running EXCEPT ![h] =
                      Done(f, Failed(f.err, 3), up)]
                 /\ issued' = issued
    /\ UNCHANGED <<server, store, now, pc, ctx, req, resp>>

\* POST /posts, PUT /posts/:id and DELETE /posts/:id, past authenticateToken
\* with the verified token of a stored user, up to their store call.
ArriveCreate ==
    /\ nextPostId + Creating({"create"}) <= MaxRacePosts
    /\ \E h \in Handlers, u \in users, c \in Contents :
         LET f == Flight(h, "create", "call",
                         [user |-> Claims(u), title |-> c[1], body |-> c[2]])
             out == CreateOutcome(server, f.arg.user, c[1], c[2], TRUE)
         IN
         /\ running[h] = Idle
         /\ running' = [running EXCEPT ![h] =
              IF out.resp.calls = 0 THEN Done(f, out.resp, TRUE) ELSE f]
    /\ UNCHANGED <<server, store, now, issued, pc, ctx, req, resp>>

ArriveUpdate ==
    /\ \E h \in Handlers, u \in users, id \in RacePostIds, c \in Contents :
         LET f == Flight(h, "update", "call",
                         [user |-> Claims(u), id |-> id, title |-> c[1],
                          body |-> c[2]])
             out == UpdateOutcome(server, f.arg.user, id, c[1], c[2], TRUE)
         IN
         /\ running[h] = Idle
         /\ running' = [running EXCEPT ![h] =
              IF out.resp.calls = 0 THEN Done(f, out.resp, TRUE) ELSE f]
    /\ UNCHANGED <<server, store, now, issued, pc, ctx, req, resp>>

ArriveDelete ==
    /\ \E h \in Handlers, u \in users, id \in RacePostIds :
         /\ running[h] = Idle
         /\ running' = [running EXCEPT ![h] =
              Flight(h, "delete", "call", [user |-> Claims(u), id |-> id])]
    /\ UNCHANGED <<server, store, now, issued, pc, ctx, req, resp>>

\* The store call of each, and the response.
CreateCall ==
    /\ \E h \in Handlers, up \in BOOLEAN :
         LET f == running[h]
             out == CreateOutcome(server, f.arg.user, f.arg.title, f.arg.body,
                                  up)
         IN
         /\ f.op = "create" /\ f.at = "call"
         /\ posts' = out.posts
         /\ nextPostId' = out.nextPostId
         /\ running' = [running EXCEPT ![h] = Done(f, out.resp, up)]
    /\ UNCHANGED <<server, users, nextUserId, now, issued, pc, ctx, req, resp>>

UpdateCall ==
    /\ \E h \in Handlers, up \in BOOLEAN :
         LET f == running[h]
             out == UpdateOutcome(server, f.arg.user, f.arg.id, f.arg.title,
                                  f.arg.body, up)
         IN
         /\ f.op = "update" /\ f.at = "call"
         /\ posts' = out.posts
         /\ running' = [running EXCEPT ![h] = Done(f, out.resp, up)]
    /\ UNCHANGED <<server, users, nextUserId, nextPostId, now, issued, pc, ctx,
                   req, resp>>

DeleteCall ==
    /\ \E h \in Handlers, up \in BOOLEAN :
         LET f == running[h]
             out == DeleteOutcome(server, f.arg.user, f.arg.id, up)
         IN
         /\ f.op = "delete" /\ f.at = "call"
         /\ posts' = out.posts
         /\ running' = [running EXCEPT ![h] = Done(f, out.resp, up)]
    /\ UNCHANGED <<server, users, nextUserId, nextPostId, now, issued, pc, ctx,
                   req, resp>>

NextRace ==
    \/ ArriveRegister
    \/ RegisterSelect
    \/ RegisterInsert
    \/ ArriveOAuth
    \/ VerifySelect
    \/ VerifyInsert
    \/ VerifyRetry
    \/ ArriveCreate
    \/ ArriveUpdate
    \/ ArriveDelete
    \/ CreateCall
    \/ UpdateCall
    \/ DeleteCall

SpecRace == InitRace /\ [][NextRace]_vars

(***************************************************************************)
(* Properties.                                                             *)
(***************************************************************************)
\* The request of the last step is a PUT or DELETE of /posts/:id whose
\* handler reached the store.
Modifies(r) ==
    \/ r.op = "delete"
    \/ r.op = "update" /\ r.title # "" /\ r.body # ""

\* C1: a post is changed or removed only by the PUT /posts/:id or
\* DELETE /posts/:id handler, for that post's id, entered with the claims of
\* a verified token whose id is the post's user_id; so the same request by
\* any other user leaves the post as it was.
C1_OnlyOwnerModifies ==
    [][\A p \in posts :
          p \notin posts' =>
            /\ pc = "authed"
            /\ Modifies(req')
            /\ req'.user = ctx.user
            /\ req'.id = p.id
            /\ req'.user.id = p.user_id]_vars

\* A user has asked to update a post of someone else, the store answered,
\* and the post is still there.
C1_Witness ==
    /\ pc = "sent"
    /\ req.op = "update"
    /\ Modifies(req)
    /\ req.up
    /\ \E p \in posts : p.id = req.id /\ p.user_id # req.user.id

\* C2: for PUT and for DELETE of /posts/:id, the response to a user who does
\* not own the post is the response to the same request for an id no post
\* has.
C2_MissesAlike ==
    pc = "authed" =>
      \A i \in PostIds, j \in PostIds, up \in BOOLEAN :
        /\ \E p \in posts : p.id = i /\ p.user_id # ctx.user.id
        /\ \A p \in posts : p.id # j
        => /\ DeleteOutcome(server, ctx.user, i, up).resp
                = DeleteOutcome(server, ctx.user, j, up).resp
           /\ \A c \in Contents :
                UpdateOutcome(server, ctx.user, i, c[1], c[2], up).resp
                  = UpdateOutcome(server, ctx.user, j, c[1], c[2], up).resp

\* A user has asked to delete a post of someone else and got the answer.
C2_Witness ==
    /\ pc = "sent"
    /\ req.op = "delete"
    /\ req.up
    /\ resp.status = 400
    /\ \E p \in posts : p.id = req.id /\ p.user_id # req.user.id

\* C3: a PUT /posts/:id that matches no post of the user is answered 400
\* "Not authorized to update this post or post not found", and such a
\* DELETE /posts/:id 400 "not authorized to delete this post or post not
\* found".
C3_MissMessages ==
    [][/\ pc = "authed"
       /\ Modifies(req')
       /\ req'.up
       /\ \A p \in posts : ~(p.id = req'.id /\ p.user_id = req'.user.id)
       => /\ resp'.status = 400
          /\ resp'.body =
               IF req'.op = "update"
               THEN Msg("Not authorized to update this post or post not found")
               ELSE Msg("not authorized to delete this post or post not found")]_vars

\* A token the server handed out and that has not expired.
Live(token) ==
    \E g \in issued : g.token = token /\ now < g.at + TokenTTL

\* The tokens a request carries: the one in its Authorization header and the
\* one in its session cookie.
Carried(r) ==
    {r.header[k] : k \in {2} \cap DOMAIN r.header}
      \cup ({r.cookie} \ {NULL})

\* C4: a request to a protected endpoint that carries no token is answered
\* 401 "Invalid or no token found"; one whose tokens are malformed, wrongly
\* signed or expired is answered 401 "Invalid token"; in both cases the route
\* handler is not entered and the store is left as it was.
C4_Rejected ==
    [][req'.op = "protected" /\ (\A t \in Carried(req') : ~Live(t)) =>
         /\ resp' # NULL
         /\ resp'.status = 401
         /\ resp'.body = IF Carried(req') = {}
                         THEN Msg("Invalid or no token found")
                         ELSE Msg("Invalid token")
         /\ pc' = "sent"
         /\ ctx' = NULL
         /\ store' = store]_vars

\* A token that has expired was presented in the cookie and refused.
C4_Witness ==
    /\ pc = "sent"
    /\ req.op = "protected"
    /\ req.header = <<>>
    /\ req.cookie \in IssuedTokens
    /\ ~Live(req.cookie)
    /\ resp.status = 401

\* C5: a token handed out at a login or OAuth callback for a user, presented
\* to the middleware before 24 hours have passed, is verified and req.user
\* has that user's id and email; presented after, it is refused with 401.
C5_TokenRoundTrip ==
    \A g \in issued :
      LET out == authenticateToken(server, <<Bearer, g.token>>, NULL) IN
      /\ \E u \in users : u.id = g.id /\ u.email = g.email
      /\ IF now < g.at + TokenTTL
         THEN /\ out.user # NULL
              /\ out.user.id = g.id
              /\ out.user.email = g.email
         ELSE /\ out.user = NULL
              /\ out.resp.status = 401

\* The middleware verified a user's token while an older token has expired.
C5_Witness ==
    /\ pc = "next"
    /\ req.op = "protected"
    /\ \E g \in issued :
         /\ req.header = <<Bearer, g.token>>
         /\ ctx.user.id = g.id
         /\ ctx.user.email = g.email
    /\ \E g \in issued : now >= g.at + TokenTTL

\* C6: when a request carries a token in the Authorization header and one in
\* the cookie, the header's token decides: if it is a live token the request
\* goes on as that token's user, whatever the cookie holds, and if it is not
\* the request is refused with 401, even if the cookie's token is live.
C6_HeaderFirst ==
    req.op = "protected" /\ Len(req.header) >= 2 /\ req.cookie # NULL =>
      IF Live(req.header[2])
      THEN /\ pc = "next"
           /\ \E g \in issued :
                /\ g.token = req.header[2]
                /\ ctx.user.id = g.id
                /\ ctx.user.email = g.email
      ELSE /\ pc = "sent"
           /\ resp.status = 401
           /\ resp.body = Msg("Invalid token")

\* A request went on as the user of its header token while its cookie held a
\* live token of another user.
C6_Witness ==
    /\ pc = "next"
    /\ req.op = "protected"
    /\ Len(req.header) >= 2
    /\ Live(req.header[2])
    /\ req.cookie # NULL
    /\ Live(req.cookie)
    /\ \E g \in issued : g.token = req.cookie /\ g.id # ctx.user.id

\* C7: a POST /auth/register with name, email and password whose email is
\* that of a stored user is answered 400 "user already exists" (the lookup
\* being answered by the store), and the Users table is left as it was.
C7_DuplicateEmail ==
    [][/\ req'.op = "register"
       /\ req'.name # "" /\ req'.email # "" /\ req'.password # ""
       /\ \E u \in users : u.email = req'.email
       => /\ users' = users
          /\ nextUserId' = nextUserId
          /\ req'.up1 => /\ resp'.status = 400
                         /\ resp'.body = Msg("user already exists")]_vars

\* A registration with the email of a stored user was refused.
C7_Witness ==
    /\ pc = "sent"
    /\ req.op = "register"
    /\ req.up1
    /\ resp.status = 400
    /\ \E u \in users : u.email = req.email /\ u.id < nextUserId

\* The fields of a response body that hold a user or a post, and the rows of
\* its list of posts.
Parts(body) ==
    {body[f] : f \in {"user", "post", "updatedPost"} \cap DOMAIN body}
      \cup (IF "posts" \in DOMAIN body
            THEN {body.posts[i] : i \in DOMAIN body.posts}
            ELSE {})

\* An object of a response has no field password, and neither has the user
\* embedded in it.
Discreet(obj) ==
    /\ "password" \notin DOMAIN obj
    /\ "Users" \in DOMAIN obj => "password" \notin DOMAIN obj.Users

\* C8: no response holds a password or a password hash: not in its body, not
\* in a user or post the body holds, not in the claims of the token it sets.
C8_NoPassword ==
    resp # NULL =>
      /\ Discreet(resp.body)
      /\ \A part \in Parts(resp.body) : Discreet(part)
      /\ resp.cookie.op = "set" =>
           "password" \notin DOMAIN resp.cookie.value.payload

\* A login of an account with a password hash was answered with the user.
C8_Witness ==
    /\ pc = "sent"
    /\ req.op = "login"
    /\ resp.status = 200
    /\ "user" \in DOMAIN resp.body
    /\ \E u \in users : u.id = resp.body.user.id /\ u.password # NULL

\* C9: a POST /auth/login with the email of a stored user who has a password
\* hash, and a password that is not the one the hash was made of, is
\* answered 400 "Invalid credentials" (the lookup being answered by the
\* store); no token is issued and no cookie is set.
C9_WrongPassword ==
    [][/\ req'.op = "login"
       /\ req'.password # ""
       /\ \E u \in users :
            /\ u.email = req'.email
            /\ u.password # NULL
            /\ u.password.digest # req'.password
       => /\ issued' = issued
          /\ resp'.cookie = NoCookie
          /\ DOMAIN resp'.body = {"message"}
          /\ req'.up => /\ resp'.status = 400
                        /\ resp'.body = Msg("Invalid credentials")]_vars

\* A login with a wrong password was refused.
C9_Witness ==
    /\ pc = "sent"
    /\ req.op = "login"
    /\ req.up
    /\ req.password # ""
    /\ \E u \in users :
         /\ u.email = req.email
         /\ u.password # NULL
         /\ u.password.digest # req.password

\* C10: a POST /auth/login without email or without password is answered
\* 400 "Both email and password are required"; the handler makes no call to
\* the store, sets no cookie and issues no token.
C10_MissingCredentials ==
    [][req'.op = "login" /\ (req'.email = "" \/ req'.password = "") =>
         /\ resp'.status = 400
         /\ resp'.body = Msg("Both email and password are required")
         /\ resp'.calls = 0
         /\ resp'.cookie = NoCookie
         /\ store' = store
         /\ issued' = issued]_vars

\* A login without password, for the email of a stored user, was refused.
C10_Witness ==
    /\ pc = "sent"
    /\ req.op = "login"
    /\ req.password = ""
    /\ \E u \in users : u.email = req.email
    /\ resp.status = 400

\* C11: POST /auth/logout answers 200, clears the session cookie and changes
\* nothing on the server; every token handed out before it that has not
\* expired, the one of the request's cookie among them, is verified by the
\* middleware after it as it was before.
C11_LogoutKeepsTokens ==
    [][req'.op = "logout" =>
         /\ resp'.status = 200
         /\ resp'.cookie = ClearCookie
         /\ resp'.calls = 0
         /\ store' = store
         /\ issued' = issued
         /\ now' = now
         /\ \A g \in issued :
              now < g.at + TokenTTL =>
                /\ (authenticateToken(server, <<>>, g.token).user # NULL)'
                /\ (authenticateToken(server, <<>>, g.token).user.id = g.id)'
                /\ (authenticateToken(server, <<Bearer, g.token>>, NULL).user
                      # NULL)']_vars

\* A logout was answered whose cookie held a token that has not expired.
C11_Witness ==
    /\ pc = "sent"
    /\ req.op = "logout"
    /\ req.cookie # NULL
    /\ Live(req.cookie)

\* C12: once a logout has been answered, a GET /auth/me whose session cookie
\* holds the token the logout was sent with is answered 401 with user null.
C12_LoggedOutRefused ==
    pc = "sent" /\ req.op = "logout" /\ req.cookie \in IssuedTokens =>
      \A up \in BOOLEAN :
        /\ MeOutcome(server, req.cookie, up).status = 401
        /\ MeOutcome(server, req.cookie, up).body.user = NULL

\* C13: GET /posts returns at most 100 posts; a limit above 100 is answered
\* as limit 100 is; page 0 is answered as page 1 is, with currentPage 1.
C13_Clamped ==
    pc = "sent" /\ req.op = "list" =>
      /\ resp.status = 200 => Len(resp.body.posts) <= 100
      /\ req.limit # NULL /\ req.limit.n > 100 =>
           resp = GetPostsOutcome(server, req.page, [n |-> 100], req.search,
                                  req.up)
      /\ req.page = [n |-> 0] =>
           /\ resp = GetPostsOutcome(server, [n |-> 1], req.limit, req.search,
                                     req.up)
           /\ resp.status = 200 => resp.body.currentPage = 1

\* GET /posts?page=0&limit=1000 was answered from a store of more than 100
\* posts.
C13_Witness ==
    /\ pc = "sent"
    /\ req.op = "list"
    /\ req.page = [n |-> 0]
    /\ req.limit = [n |-> 1000]
    /\ req.search = ""
    /\ Cardinality(posts) > 100
    /\ resp.status = 200
    /\ Len(resp.body.posts) = 100

\* The page and the limit GET /posts is specified to serve a query with.
ServedPage(r) == IF r.page = NULL \/ r.page.n < 1 THEN 1 ELSE r.page.n

ServedLimit(r) ==
    IF r.limit = NULL \/ r.limit.n = 0 THEN 10
    ELSE IF r.limit.n > 100 THEN 100 ELSE r.limit.n

\* The stored posts a search matches.
Matching(search) ==
    IF search = "" THEN posts ELSE {p \in posts : ILike(p.title, search)}

\* rows is the list of the matching posts, newest first, from position
\* `first` (counted from 0) through position `last`.
IsWindow(rows, search, first, last) ==
    LET found == Matching(search)
        count == Cardinality(found)
        upto == IF last + 1 < count THEN last + 1 ELSE count
    IN  /\ Len(rows) = IF upto > first THEN upto - first ELSE 0
        /\ \A i \in 1..Len(rows) :
             \E p \in found :
               /\ rows[i].id = p.id
               /\ rows[i].title = p.title
               /\ rows[i].body = p.body
               /\ rows[i].user_id = p.user_id
               /\ Cardinality({q \in found : q.created_at > p.created_at})
                    = first + i - 1

\* C14: GET /posts, the store answering, returns the posts whose title
\* contains the search string whatever the case (all posts without search),
\* newest first, from position (page-1)*limit through (page-1)*limit+limit-1,
\* with totalPosts the number of matching posts, totalPages
\* ceil(totalPosts/limit) and currentPage the page served; asked again with
\* no write in between it returns the same.
C14_Listing ==
    pc = "sent" /\ req.op = "list" /\ req.up =>
      LET page == ServedPage(req)
          limit == ServedLimit(req)
          count == Cardinality(Matching(req.search))
      IN  /\ resp.status = 200
          /\ IsWindow(resp.body.posts, req.search,
                      (page - 1) * limit, (page - 1) * limit + limit - 1)
          /\ resp.body.totalPosts = count
          /\ resp.body.totalPages = CeilDiv(count, limit)
          /\ resp.body.currentPage = page
          /\ resp = GetPostsOutcome(server, req.page, req.limit, req.search,
                                    req.up)

\* The post of the store with this id that this user owns, if any.
Own(r) == {p \in posts : p.id = r.id /\ p.user_id = r.user.id}

\* C15: with the store answering, registering a new email (name, email and a
\* string password given) is answered 201, a
\* login with the registered password 200, creating a post 201, updating
\* one's own post 200 with the updated post, deleting a post of another user
\* 400 with the post still stored, deleting one's own post 200 with the post
\* gone.  Post ids are not used again and GET /posts lists stored posts
\* only, so a post its owner deleted is in no later list.
C15_Journey ==
    [][/\ req'.op = "register" /\ req'.up1 /\ req'.up2
            /\ req'.name # "" /\ req'.email # "" /\ req'.password \in Passwords
            /\ (\A u \in users : u.email # req'.email)
          => /\ resp'.status = 201
             /\ \E u \in users' \ users : u.email = req'.email
       /\ req'.op = "login" /\ req'.up
            /\ (\E u \in users : /\ u.email = req'.email
                                  /\ u.password # NULL
                                  /\ req'.password # ""
                                  /\ u.password.digest = req'.password)
          => /\ resp'.status = 200
             /\ resp'.cookie.op = "set"
       /\ req'.op = "create" /\ req'.up /\ req'.title # "" /\ req'.body # ""
          => /\ resp'.status = 201
             /\ resp'.body.post \in posts' \ posts
             /\ resp'.body.post.user_id = req'.user.id
             /\ resp'.body.post.title = req'.title
       /\ req'.op = "update" /\ req'.up /\ req'.title # "" /\ req'.body # ""
            /\ Own(req') # {}
          => /\ resp'.status = 200
             /\ resp'.body.updatedPost \in posts'
             /\ resp'.body.updatedPost.id = req'.id
             /\ resp'.body.updatedPost.title = req'.title
             /\ resp'.body.updatedPost.body = req'.body
       /\ req'.op = "delete" /\ req'.up /\ Own(req') = {}
            /\ (\E p \in posts : p.id = req'.id)
          => /\ resp'.status = 400
             /\ posts' = posts
       /\ req'.op = "delete" /\ req'.up /\ Own(req') # {}
          => /\ resp'.status = 200
             /\ resp'.body.message = "post deleted successfully"
             /\ \A p \in posts' : p.id # req'.id
       /\ \A p \in posts' : p.id < nextPostId'
       /\ nextPostId' >= nextPostId
       /\ \A p \in posts' :
            (\A q \in posts : q.id # p.id) => p.id >= nextPostId
       /\ req'.op = "list" /\ resp'.status = 200
          => \A i \in DOMAIN resp'.body.posts :
               \E p \in posts : p.id = resp'.body.posts[i].id]_vars

\* With two users registered, GET /posts was answered after the only post
\* made had been deleted.
C15_Witness ==
    /\ pc = "sent"
    /\ req.op = "list"
    /\ req.search = ""
    /\ resp.status = 200
    /\ Cardinality(users) = 2
    /\ nextPostId = 2
    /\ posts = {}
    /\ Len(resp.body.posts) = 0

\* C16: a callback whose profile email, lower-cased and trimmed, is the email
\* of a user an earlier callback created is a login, the store answering:
\* the session is that user's and no user is created.
C16_NormalizedLookup ==
    [][/\ req'.op = "oauth" /\ req'.up1 /\ req'.up2 /\ req'.up3
       /\ ProfileEmail(req'.profile) # ""
       /\ \E u \in users :
            /\ u.password = NULL
            /\ u.email = Trim(ToLowerCase(ProfileEmail(req'.profile)))
       => /\ users' = users
          /\ resp'.status = 302
          /\ resp'.cookie.op = "set"
          /\ \E u \in users :
               /\ u.email = Trim(ToLowerCase(ProfileEmail(req'.profile)))
               /\ resp'.cookie.value.payload.id = u.id]_vars

\* C17: a callback whose profile has no email fails with the missing-email
\* error; otherwise one whose profile has no display name and no given or
\* family name fails with the missing-name error; in both cases the store is
\* not asked and no user is created.
C17_MissingProfileParts ==
    [][req'.op = "oauth" =>
        LET profile == req'.profile
            refused(text) == /\ resp'.status = 500
                             /\ resp'.body = [html |-> text]
                             /\ resp'.calls = 0
                             /\ users' = users
                             /\ issued' = issued
        IN  /\ Len(profile.emails) = 0
                => refused("No email found in Google profile")
            /\ (/\ Len(profile.emails) # 0
                /\ profile.displayName = ""
                /\ profile.name = NULL)
                => refused("No name found in Google profile")]_vars

\* Some store call the handler of the request made was not answered.
StoreFailed ==
    \/ req.op \in {"login", "me", "list", "create", "update", "delete"}
         /\ ~req.up
    \/ req.op = "register" /\ (~req.up1 \/ ~req.up2)
    \/ req.op = "oauth" /\ (~req.up1 \/ ~req.up2 \/ ~req.up3)

\* C18: every request is answered by one response and no exception leaves
\* its handler, whatever the store answers; a store failure is answered 500.
C18_Isolated ==
    pc = "sent" =>
        /\ ~resp.escaped
        /\ StoreFailed => resp.status = 500

\* C19: every JSON response with an error status has a string message, and
\* on GET /auth/me it has user null instead.  (The failure of the OAuth
\* callback is not JSON.)
C19_ErrorBodies ==
    (pc = "sent" /\ resp.status >= 400 /\ req.op # "oauth") =>
        IF req.op = "me"
        THEN "user" \in DOMAIN resp.body /\ resp.body.user = NULL
        ELSE "message" \in DOMAIN resp.body /\ resp.body.message \in STRING

C21_InvalidEmail ==
    [][/\ req'.op = "register" /\ req'.up1 /\ req'.up2
       /\ req'.name # "" /\ req'.password # ""
       /\ req'.email = InvalidEmail
       => /\ resp'.status = 400
          /\ "message" \in DOMAIN resp'.body
          /\ users' = users]_vars

\* C23: a POST /posts or PUT /posts/:id with a verified token and a missing
\* or empty title or body is answered 400 "title and body are required";
\* the store is not asked and no post is created or changed.
C23_RequiredFields ==
    [][/\ req'.op \in {"create", "update"}
       /\ (req'.title = "" \/ req'.body = "")
       => /\ resp'.status = 400
          /\ resp'.body = Msg("title and body are required")
          /\ resp'.calls = 0
          /\ ~resp'.escaped
          /\ store' = store]_vars

\* An update of one's own post that gave no title was refused.
C23_Witness ==
    /\ pc = "sent"
    /\ req.op = "update"
    /\ req.title = ""
    /\ req.body # ""
    /\ Own(req) # {}
    /\ resp.status = 400

\* C29: whatever integer the limit parameter is, zero and negative ones
\* included, the limit GET /posts uses is between 1 and 100, the row range
\* it asks the store for has 0 <= start <= end, and the totalPages it
\* returns is not negative.
C29_LimitRange ==
    pc = "sent" /\ req.op = "list" =>
      LET page == ClampPage(ParseIntOr(req.page, 1))
          limit == ClampLimit(server, ParseIntOr(req.limit, DefaultLimit))
          start == (page - 1) * limit
          end == start + limit - 1
      IN  /\ 1 <= limit /\ limit <= 100
          /\ 0 <= start /\ start <= end
          /\ resp.status = 200 => resp.body.totalPages >= 0

\* Two responses have the same status code and the same message (or both
\* have none).
SameAnswer(a, b) ==
    /\ a.status = b.status
    /\ ("message" \in DOMAIN a.body) = ("message" \in DOMAIN b.body)
    /\ "message" \in DOMAIN a.body => a.body.message = b.body.message

\* C30: for the same store contents, the same request and the same answers
\* of the store, index.js and the test server give the same status code and
\* message and make the same change to the store, on /auth/register,
\* /auth/login, /auth/logout, /auth/me and GET, POST, PUT, DELETE /posts.
C30_ServersAgree ==
    /\ pc = "idle" =>
         /\ \A b \in RegisterBodies, up1 \in BOOLEAN, up2 \in BOOLEAN :
              LET p == RegisterOutcome("prod", b.name, b.email, b.password,
                                       up1, up2)
                  t == RegisterOutcome("test", b.name, b.email, b.password,
                                       up1, up2)
              IN  SameAnswer(p.resp, t.resp) /\ p.users = t.users
         /\ \A b \in LoginBodies, up \in BOOLEAN :
              LET p == LoginOutcome("prod", b.email, b.password, up)
                  t == LoginOutcome("test", b.email, b.password, up)
              IN  SameAnswer(p.resp, t.resp) /\ p.token = t.token
         /\ SameAnswer(LogoutOutcome("prod"), LogoutOutcome("test"))
         /\ \A c \in Cookies, up \in BOOLEAN :
              SameAnswer(MeOutcome("prod", c, up), MeOutcome("test", c, up))
         /\ \A q \in Queries, up \in BOOLEAN :
              SameAnswer(GetPostsOutcome("prod", q.page, q.limit, q.search, up),
                         GetPostsOutcome("test", q.page, q.limit, q.search, up))
    /\ pc = "authed" =>
         /\ \A c \in Contents, up \in BOOLEAN :
              LET p == CreateOutcome("prod", ctx.user, c[1], c[2], up)
                  t == CreateOutcome("test", ctx.user, c[1], c[2], up)
              IN  SameAnswer(p.resp, t.resp) /\ p.posts = t.posts
         /\ \A id \in PostIds, c \in Contents, up \in BOOLEAN :
              LET p == UpdateOutcome("prod", ctx.user, id, c[1], c[2], up)
                  t == UpdateOutcome("test", ctx.user, id, c[1], c[2], up)
              IN  SameAnswer(p.resp, t.resp) /\ p.posts = t.posts
         /\ \A id \in PostIds, up \in BOOLEAN :
              LET p == DeleteOutcome("prod", ctx.user, id, up)
                  t == DeleteOutcome("test", ctx.user, id, up)
              IN  SameAnswer(p.resp, t.resp) /\ p.posts = t.posts

\* Handler h was waiting for the store and has answered in this step, the
\* store having answered it.
Answers(h, op) ==
    /\ running[h].op = op
    /\ running[h].at # "done"
    /\ running'[h].at = "done"
    /\ running'[h].ok

\* C22: a POST /posts with a verified token and a title and a body, the
\* store answering, adds exactly one post, owned by the token's user and
\* holding the given title and body, and is answered 201 "post created
\* successfully" with it; two such requests with the same token that run
\* side by side are answered with two different posts, both stored.
C22_CreateOne ==
    [][\A h \in Handlers :
         /\ Answers(h, "create") =>
              LET r == running'[h].resp
                  a == running[h].arg
              IN  /\ r.status = 201
                  /\ r.body.message = "post created successfully"
                  /\ posts' \ posts = {r.body.post}
                  /\ posts \subseteq posts'
                  /\ r.body.post.user_id = a.user.id
                  /\ r.body.post.title = a.title
                  /\ r.body.post.body = a.body
                  /\ \A q \in posts : q.id # r.body.post.id
         /\ \A k \in Handlers \ {h} :
              (/\ Answers(h, "create")
               /\ running[k].op = "create" /\ running[k].at = "done"
               /\ running[k].ok /\ running[k].resp.status = 201)
              => /\ running'[k].resp.body.post.id
                      # running'[h].resp.body.post.id
                 /\ running'[k].resp.body.post \in posts'
                 /\ running'[h].resp.body.post \in posts']_vars

\* Two POST /posts with the same token and both in flight before either
\* insert have both been answered 201.
C22_Witness ==
    /\ \A h \in Handlers :
         /\ running[h].op = "create"
         /\ running[h].at = "done"
         /\ running[h].ok
         /\ running[h].resp.status = 201
    /\ running["h1"].arg.user = running["h2"].arg.user
    /\ \E h \in Handlers : running[h].beside
    /\ Cardinality(posts) = 4

\* C24: a PUT /posts/:id by the owner of the post with a title and a body,
\* the store answering, is answered 200 with the updated post; the stored
\* post gets the given title and body and keeps its id, owner and creation
\* time, and every other post is left as it was.  No step changes the owner
\* or the creation time of a stored post, and a post id is not used again.
C24_OwnerUpdate ==
    [][/\ \A h \in Handlers :
            (/\ Answers(h, "update")
             /\ running[h].arg.title # "" /\ running[h].arg.body # "")
            => \A p \in posts :
                 (p.id = running[h].arg.id
                    /\ p.user_id = running[h].arg.user.id)
                 => LET a == running[h].arg
                        r == running'[h].resp
                        new == [id |-> p.id, title |-> a.title,
                                body |-> a.body, user_id |-> p.user_id,
                                created_at |-> p.created_at]
                    IN  /\ r.status = 200
                        /\ r.body.updatedPost = new
                        /\ posts' = (posts \ {p}) \cup {new}
       /\ \A p \in posts, q \in posts' :
            p.id = q.id => q.user_id = p.user_id /\ q.created_at = p.created_at
       /\ \A q \in posts' \ posts :
            (\E p \in posts : p.id = q.id) \/ q.id >= nextPostId]_vars

\* The owner of post 1 has replaced its title and body while a post of
\* another user and a second post of the owner were stored.
C24_Witness ==
    \E h \in Handlers :
      /\ running[h].op = "update"
      /\ running[h].at = "done"
      /\ running[h].resp.status = 200
      /\ running[h].arg.id = 1
      /\ \E p \in posts :
           /\ p.id = 1
           /\ p.user_id = running[h].arg.user.id
           /\ p.title = "t2" /\ p.body = "b2"
      /\ \E q \in posts : q.id # 1 /\ q.user_id # running[h].arg.user.id
      /\ \E q \in posts : q.id # 1 /\ q.user_id = running[h].arg.user.id

\* C25: when the resolver's insert is refused as a unique violation because
\* a request that ran beside it stored the email first, the resolver reads
\* the user by email once more and, the store answering, the callback is the
\* login of that user; two first logins with the same profile that run side
\* by side both end as logins of the same user.
C25_RetryOnce ==
    [][\A h \in Handlers :
         (/\ running[h].op = "oauth"
          /\ running[h].at = "retry"
          /\ running'[h].at = "done"
          /\ running'[h].ok)
         => LET r == running'[h].resp
                email == Trim(ToLowerCase(ProfileEmail(running[h].arg)))
            IN  /\ r.calls = 3
                /\ users' = users
                /\ (\E u \in users : u.email = email)
                     => /\ r.status = 302
                        /\ r.cookie.op = "set"
                        /\ \E u \in users :
                             /\ u.email = email
                             /\ r.cookie.value.payload.id = u.id]_vars

BothServed(op) ==
    /\ \A h \in Handlers :
         /\ running[h].op = op
         /\ running[h].at = "done"
         /\ running[h].ok
         /\ running[h].resp.calls = 1
    /\ running["h1"].arg.id = running["h2"].arg.id
    /\ running["h1"].arg.user = running["h2"].arg.user
    /\ \E h \in Handlers : running[h].beside

\* C27: of two DELETE /posts/:id that the owner sends for one post side by
\* side, exactly one is answered 200 with the deleted post and the other 400;
\* two PUT /posts/:id of the owner for one post that run side by side are both
\* answered 200, and the stored post has the title and body of one of them,
\* the one the store applied last.
C27_SamePost ==
    /\ (BothServed("delete")
          /\ \E p \in TwoPosts : /\ p.id = running["h1"].arg.id
                                  /\ p.user_id = running["h1"].arg.user.id
                                  /\ nextPostId = 3)
        => \E h \in Handlers, k \in Handlers :
             /\ h # k
             /\ running[h].resp.status = 200
             /\ running[h].resp.body.post # NULL
             /\ running[h].resp.body.post.id = running[h].arg.id
             /\ running[k].resp.status = 400
             /\ \A p \in posts : p.id # running[h].arg.id
    /\ (BothServed("update")
          /\ \E p \in posts : /\ p.id = running["h1"].arg.id
                               /\ p.user_id = running["h1"].arg.user.id)
        => /\ \A h \in Handlers : running[h].resp.status = 200
           /\ \E h \in Handlers, p \in posts :
                /\ p.id = running[h].arg.id
                /\ p.title = running[h].arg.title
                /\ p.body = running[h].arg.body
                /\ running[h].resp.body.updatedPost = p

\* C28: when two POST /auth/register with all fields and the same email have
\* both looked the email up before either inserts, the store answering,
\* exactly one of them stores the user and is answered 201 "User created
\* successfully" with it; the other stores nothing and its one response is an
\* error, not a 201.
C28_RegisterRace ==
    (/\ \A h \in Handlers :
          /\ running[h].op = "register"
          /\ running[h].at = "done"
          /\ running[h].ok
          /\ running[h].resp.calls = 2
     /\ running["h1"].arg.email = running["h2"].arg.email)
    => \E h \in Handlers, k \in Handlers :
         /\ h # k
         /\ running[h].resp.status = 201
         /\ running[h].resp.body.message = "User created successfully"
         /\ running[h].resp.body.user.email = running[h].arg.email
         /\ {u \in users : u.email = running[h].arg.email}
              = {u \in users : u.id = running[h].resp.body.user.id}
         /\ Cardinality({u \in users : u.email = running[h].arg.email}) = 1
         /\ running[k].resp.status >= 400
         /\ "user" \notin DOMAIN running[k].resp.body

\* Two registrations of one email have both gone through their insert.
C28_Witness ==
    /\ \A h \in Handlers :
         /\ running[h].op = "register"
         /\ running[h].at = "done"
         /\ running[h].ok
         /\ running[h].resp.calls = 2
    /\ running["h1"].arg.email = running["h2"].arg.email
    /\ running["h1"].arg.email = "a@x"
    /\ \E h \in Handlers : running[h].resp.status = 500
    /\ Cardinality(users) = 1

====
